---- MODULE Spec2Model ----
(***************************************************************************)
(* A model of app2.py, the Streamlit inflation dashboard.                  *)
(*                                                                         *)
(* Streamlit re-executes the whole script after every interaction (file    *)
(* upload, slider move, radio selection, checkbox toggle).  Each action    *)
(* below is therefore one interaction followed by one complete execution   *)
(* of the script, top to bottom, up to its end or to the first exception   *)
(* that escapes it.                                                        *)
(*                                                                         *)
(* Numbers: an inflation percentage is a small natural number; the pandas  *)
(* missing value (NaN, and NaT for dates) is NaN.  A date is <<year,       *)
(* month>> (the data is monthly; the day plays no part in the script).     *)
(* A mean is kept exact as the pair [sum, n].                              *)
(***************************************************************************)
EXTENDS Integers, Sequences, FiniteSets, TLC

VARIABLES
  pool,           \* the CSV files the user has at hand to upload
  uploaded_file,  \* st.sidebar.file_uploader's value (NoFile: nothing uploaded)
  cache,          \* st.cache_data's memo of load_data: file -> returned value
  parseCount,     \* file -> number of times load_data's body ran for it
  slider,         \* the year-range slider's session state
  chart_type,     \* the radio's session state
  show_stats,     \* the checkbox's session state
  out             \* what the last execution of the script computed and drew

vars == <<pool, uploaded_file, cache, parseCount, slider,
          chart_type, show_stats, out>>

\* ------------------------------------------------------------------ bounds
MaxRows == 2

\* the dates of the data rows, and their years
Dates == {<<2020, 1>>, <<2020, 12>>, <<2029, 1>>}
Years == {d[1] : d \in Dates}
RateVals == {0, 1}
ForecastVals == {1}

\* ------------------------------------------------------------- basic values
NaN == -1
NaT == <<NaN, NaN>>

DefaultLo == 2014
DefaultHi == 2028

all_months ==
  <<"Jan", "Feb", "Mar", "Apr", "May", "Jun",
    "Jul", "Aug", "Sep", "Oct", "Nov", "Dec">>

\* strftime('%b')
MonthAbbr(date) == all_months[date[2]]

FullMonths ==
  <<"January", "February", "March", "April", "May", "June", "July",
    "August", "September", "October", "November", "December">>

\* strftime("%B %Y")
MonthYear(date) == <<FullMonths[date[2]], date[1]>>

\* the order of dates (datetime64 comparison)
DateOrd(date) == date[1] * 12 + date[2]

RECURSIVE SeqSum(_)
SeqSum(s) == IF s = <<>> THEN 0 ELSE Head(s) + SeqSum(Tail(s))

RECURSIVE SetMin(_)
SetMin(S) ==
  LET x == CHOOSE x \in S : TRUE
  IN IF S = {x} THEN x
     ELSE LET m == SetMin(S \ {x}) IN IF x < m THEN x ELSE m

RECURSIVE SetMax(_)
SetMax(S) ==
  LET x == CHOOSE x \in S : TRUE
  IN IF S = {x} THEN x
     ELSE LET m == SetMax(S \ {x}) IN IF x > m THEN x ELSE m

\* the non-null entries of a column, in row order
RECURSIVE NotNull(_)
NotNull(col) ==
  IF col = <<>> THEN <<>>
  ELSE IF Head(col) = NaN THEN NotNull(Tail(col))
       ELSE <<Head(col)>> \o NotNull(Tail(col))

\* Series.mean(): the mean of the non-null entries, NaN when there is none
Mean(col) ==
  LET v == NotNull(col)
  IN IF v = <<>> THEN [sum |-> 0, n |-> 0]
     ELSE [sum |-> SeqSum(v), n |-> Len(v)]

Blank == [sum |-> 0, n |-> 0]

\* --------------------------------------------------------------- CSV files
\* One data row of an uploaded CSV (Rolling_Avg_Inflation is only plotted).
CsvRows ==
  [Date : Dates,
   Rate : RateVals \cup {NaN}, Forecast : ForecastVals \cup {NaN}]

SeqsUpTo(S, n) == UNION {[1..k -> S] : k \in 0..n}

\* A file: whether it has a Date column, whether its Date strings parse,
\* and its data rows.
OkFiles == [hasDate : {TRUE}, dateOk : {TRUE}, rows : SeqsUpTo(CsvRows, MaxRows)]

SampleRow == [Date |-> <<2020, 1>>, Rate |-> 1, Forecast |-> NaN]
MissingDateFile == [hasDate |-> FALSE, dateOk |-> TRUE, rows |-> <<SampleRow>>]
BadDateFile == [hasDate |-> TRUE, dateOk |-> FALSE, rows |-> <<SampleRow>>]

Files == OkFiles \cup {MissingDateFile, BadDateFile}

NoFile == [hasDate |-> FALSE, dateOk |-> FALSE, rows |-> <<>>]

\* ------------------------------------------------------------- load_data
\* pd.read_csv(uploaded_file, parse_dates=["Date"]): the dtype of the Date
\* column.  Strings that do not parse leave it an object column; with no
\* data rows at all nothing is converted and the dtype is whatever the
\* pandas build gives an empty column (EmptyDtypes).
EmptyDtypes(file) ==
  IF file.dateOk /\ file.rows = <<>> THEN {"object", "datetime64"}
  ELSE {"datetime64"}

DateDtype(file, empties) ==
  IF ~file.dateOk THEN "object"
  ELSE IF file.rows = <<>> THEN empties
  ELSE "datetime64"

\* a fillna with its operands exchanged
Inflation_Combined_ForecastFirst(rate, forecast) ==
  IF forecast # NaN THEN forecast ELSE rate

\* df['Inflation Rate'].fillna(df['Forecast_Inflation']), one row
Inflation_Combined(rate, forecast) == IF rate # NaN THEN rate ELSE forecast

\* the three columns load_data adds to a row
Augment(r) ==
  [Date |-> r.Date, Rate |-> r.Rate, Forecast |-> r.Forecast,
   Year |-> r.Date[1],
   Month |-> MonthAbbr(r.Date),
   Inflation_Combined |-> Inflation_Combined(r.Rate, r.Forecast)]

None == [isNone |-> TRUE, rows |-> <<>>]

\* read_csv raises when the Date column is missing, and .dt raises on a
\* column that is not datetime64; either is caught and None returned.
load_data(file, empties) ==
  IF ~file.hasDate \/ DateDtype(file, empties) # "datetime64"
  THEN None
  ELSE [isNone |-> FALSE,
        rows |-> [i \in 1..Len(file.rows) |-> Augment(file.rows[i])]]

\* a memo keyed by the function alone
cache_key_NoArgument(file) == NoFile

\* @st.cache_data: the memo's key for a call, the hash of the argument; an
\* uploaded file hashes by its content
cache_key(file) == file

\* whether a call with this argument is answered from the memo
cache_hit(file, memo) == cache_key(file) \in DOMAIN memo

\* the memo's answer
cache_get(file, memo) == memo[cache_key(file)]

\* the memo after a call that returned value
cache_store(file, value, memo) ==
  IF cache_hit(file, memo) THEN memo ELSE memo @@ (cache_key(file) :> value)

\* ---------------------------------------------------------- the script
\* a caller that does not test the sentinel
Proceeds_Always(res) == TRUE

\* if df is not None
Proceeds(res) == ~res.isNone

YearsOf(df) == {df[i].Year : i \in 1..Len(df)}

\* the min_value and max_value arguments of the slider
YearMin(df) == IF df = <<>> THEN NaN ELSE SetMin(YearsOf(df))
YearMax(df) == IF df = <<>> THEN NaN ELSE SetMax(YearsOf(df))

\* the value argument of the slider
DefaultRange == <<DefaultLo, DefaultHi>>

\* st.slider widens its bounds so that they hold the default value
SliderBounds(lo, hi) ==
  <<IF DefaultLo < lo THEN DefaultLo ELSE lo,
    IF DefaultHi > hi THEN DefaultHi ELSE hi>>

NoSlider == [key |-> NaT, val |-> NaT]

\* what st.sidebar.slider returns: the session's selection when the widget
\* is the one drawn before (same arguments), the default value otherwise
year_range(sl, lo, hi) ==
  IF sl.key = <<lo, hi>> THEN sl.val ELSE DefaultRange

\* a filter whose upper bound is exclusive
filtered_df_Exclusive(df, yr) ==
  SelectSeq(df, LAMBDA r : r.Year >= yr[1] /\ r.Year < yr[2])

\* df[(df["Year"] >= year_range[0]) & (df["Year"] <= year_range[1])]
filtered_df(df, yr) ==
  SelectSeq(df, LAMBDA r : r.Year >= yr[1] /\ r.Year <= yr[2])

RateCol(df) == [i \in 1..Len(df) |-> df[i].Rate]
ForecastCol(df) == [i \in 1..Len(df) |-> df[i].Forecast]
Range(s) == {s[i] : i \in 1..Len(s)}

\* df["Inflation Rate"].max() and .min(): NaN over no values
max_inflation_value(df) ==
  LET v == NotNull(RateCol(df)) IN IF v = <<>> THEN NaN ELSE SetMax(Range(v))
min_inflation_value(df) ==
  LET v == NotNull(RateCol(df)) IN IF v = <<>> THEN NaN ELSE SetMin(Range(v))

\* df[df["Inflation Rate"] == value]["Date"].values: NaN equals nothing
DatesAttaining(df, value) ==
  LET hit == SelectSeq(df, LAMBDA r : r.Rate # NaN /\ value # NaN /\ r.Rate = value)
  IN [i \in 1..Len(hit) |-> hit[i].Date]

\* the date of the last row attaining the value
inflation_date_Last(df, value) ==
  MonthYear(DatesAttaining(df, value)[Len(DatesAttaining(df, value))])

\* pd.to_datetime(....values[0]).strftime("%B %Y"), given that values[0] exists
inflation_date(df, value) == MonthYear(DatesAttaining(df, value)[1])

\* the date of the first null row in table order, not the earliest date
forecast_start_FirstRow(df) ==
  LET nulls == {i \in 1..Len(df) : df[i].Rate = NaN}
  IN IF nulls = {} THEN NaT ELSE df[SetMin(nulls)].Date

\* df[df['Inflation Rate'].isna()]['Date'].min(): NaT over no rows
forecast_start(df) ==
  LET nulls == {i \in 1..Len(df) : df[i].Rate = NaN}
  IN IF nulls = {} THEN NaT
     ELSE LET first == SetMin({DateOrd(df[i].Date) : i \in nulls})
          IN df[CHOOSE i \in nulls : DateOrd(df[i].Date) = first].Date

\* heat_df.pivot_table(index='Month', columns='Year',
\* values='Inflation_Combined'): the mean of the non-null values of each
\* (month, year) group; groups, and so years, with no non-null value are
\* dropped (dropna=True).
GroupMean(fdf, month, year) ==
  LET g == SelectSeq(fdf, LAMBDA r : r.Month = month /\ r.Year = year)
  IN Mean([i \in 1..Len(g) |-> g[i].Inflation_Combined])

\* a pivot that keeps the years whose values are all null (dropna=False)
PivotColumns_KeepNull(fdf) == {fdf[i].Year : i \in 1..Len(fdf)}

PivotColumns(fdf) ==
  {y \in YearsOf(fdf) : \E i \in 1..Len(all_months) :
                           GroupMean(fdf, all_months[i], y) # Blank}

\* pivot.reindex(all_months): the twelve rows in calendar order; a month
\* the pivot lacks becomes a row of NaN
pivot_table(fdf) ==
  [index |-> all_months,
   columns |-> PivotColumns(fdf),
   cell |-> [m \in Range(all_months), y \in PivotColumns(fdf) |->
               GroupMean(fdf, m, y)]]

NoPivot == [index |-> <<>>, columns |-> {}, cell |-> <<>>]

\* what one execution of the script leaves on the page, before anything ran
NoRun ==
  [status |-> "idle", raised_at |-> 0, error |-> FALSE, info |-> FALSE,
   loaded |-> FALSE, df |-> <<>>,
   controls |-> FALSE, slider_key |-> NaT, slider_bounds |-> NaT,
   year_range |-> NaT, filtered_df |-> <<>>,
   stats |-> FALSE, max_inflation_value |-> NaN, min_inflation_value |-> NaN,
   max_inflation_date |-> <<"", NaN>>, min_inflation_date |-> <<"", NaN>>,
   avg_forecast |-> Blank,
   forecast_start |-> NaT, view |-> "none", marker |-> NaT, annotation |-> NaN,
   pivot |-> NoPivot, export |-> FALSE, csv |-> <<>>, footer |-> FALSE]

\* the summary stats block, given that it does not raise
Stats(r, df) ==
  [r EXCEPT !.stats = TRUE,
            !.max_inflation_value = max_inflation_value(df),
            !.min_inflation_value = min_inflation_value(df),
            !.max_inflation_date = inflation_date(df, max_inflation_value(df)),
            !.min_inflation_date = inflation_date(df, min_inflation_value(df)),
            !.avg_forecast = Mean(ForecastCol(df))]

\* the chart sections
View(r, df, fdf, ct) ==
  LET fs == forecast_start(df)
      r1 == [r EXCEPT !.forecast_start = fs, !.view = ct]
  IN CASE ct = "Line Charts" ->
            IF fs # NaT
            THEN [r1 EXCEPT !.marker = fs, !.annotation = fs[1]]
            ELSE r1
       [] ct = "Heatmap" -> [r1 EXCEPT !.pivot = pivot_table(fdf)]
       [] ct = "Raw Data" -> [r1 EXCEPT !.export = TRUE, !.csv = fdf]

\* everything under "if df is not None"
Dashboard(df, sl, ct, ss) ==
  LET r0 == [NoRun EXCEPT !.loaded = TRUE, !.df = df]
  IN IF df = <<>>
     THEN \* int(df['Year'].min()) is int(NaN): ValueError
          [r0 EXCEPT !.status = "raised", !.raised_at = 53]
     ELSE
       LET lo == YearMin(df)
           hi == YearMax(df)
           yr == year_range(sl, lo, hi)
           fdf == filtered_df(df, yr)
           r1 == [r0 EXCEPT !.controls = TRUE, !.slider_key = <<lo, hi>>,
                            !.slider_bounds = SliderBounds(lo, hi),
                            !.year_range = yr, !.filtered_df = fdf]
       IN IF ss /\ DatesAttaining(df, max_inflation_value(df)) = <<>>
          THEN \* .values[0] of an empty array: IndexError
               [r1 EXCEPT !.status = "raised", !.raised_at = 67]
          ELSE [View(IF ss THEN Stats(r1, df) ELSE r1, df, fdf, ct)
                  EXCEPT !.status = "done", !.footer = TRUE]

\* one execution of the script from "if uploaded_file is not None" on,
\* given what load_data returned (res is unused when no file is uploaded)
Script(file, res, sl, ct, ss) ==
  IF file = NoFile
  THEN [NoRun EXCEPT !.info = TRUE]
  ELSE IF Proceeds(res)
       THEN Dashboard(res.rows, sl, ct, ss)
       ELSE \* st.error ran inside load_data (st.cache_data replays it on a
            \* hit); nothing else is drawn
            [NoRun EXCEPT !.status = "load_failed", !.error = TRUE]

\* What the run can leave, given what the script computes.  The charting
\* calls are the toolkit's: sns.heatmap reduces over the grid's values for
\* its colour range, and over a grid without columns it either draws
\* nothing or raises, ending the run before the footer.
Outcomes(o) ==
  IF o.status = "done" /\ o.view = "Heatmap" /\ o.pivot.columns = {}
  THEN {o, [o EXCEPT !.status = "raised", !.raised_at = 184, !.footer = FALSE]}
  ELSE {o}

\* ------------------------------------------------------------- the session
DefaultChart == "Line Charts"
ChartTypes == {"Line Charts", "Heatmap", "Raw Data"}

\* The script runs again with the given upload and widget states.  Widgets
\* the run does not draw lose their session state.
Rerun(file, sl, ct, ss) ==
  \E empties \in EmptyDtypes(file) :
  LET hit == file # NoFile /\ cache_hit(file, cache)
      res == IF file = NoFile THEN None
             ELSE IF hit THEN cache_get(file, cache)
             ELSE load_data(file, empties)
  IN \E o \in Outcomes(Script(file, res, sl, ct, ss)) :
     /\ uploaded_file' = file
     /\ cache' = IF file = NoFile THEN cache ELSE cache_store(file, res, cache)
     /\ parseCount' =
          IF file = NoFile \/ hit THEN parseCount
          ELSE IF file \in DOMAIN parseCount
               THEN [parseCount EXCEPT ![file] = @ + 1]
               ELSE parseCount @@ (file :> 1)
     /\ out' = o
     /\ slider' = IF o.controls THEN [key |-> o.slider_key, val |-> o.year_range]
                  ELSE NoSlider
     /\ chart_type' = IF o.controls THEN ct ELSE DefaultChart
     /\ show_stats' = IF o.controls THEN ss ELSE TRUE
     /\ UNCHANGED pool

\* the user uploads (or replaces the upload by) a file
Upload(f) ==
  /\ f \in pool
  /\ Rerun(f, slider, chart_type, show_stats)

\* the user removes the upload
ClearFile ==
  /\ uploaded_file # NoFile
  /\ Rerun(NoFile, slider, chart_type, show_stats)

\* the positions the slider is moved to
SliderStops == Years \cup {DefaultLo}

MoveSlider(a, b) ==
  /\ out.controls
  /\ a <= b
  /\ out.slider_bounds[1] <= a
  /\ b <= out.slider_bounds[2]
  /\ <<a, b>> # slider.val
  /\ Rerun(uploaded_file, [key |-> out.slider_key, val |-> <<a, b>>],
           chart_type, show_stats)

SelectChart(ct) ==
  /\ out.controls
  /\ ct # chart_type
  /\ Rerun(uploaded_file, slider, ct, show_stats)

ToggleStats ==
  /\ out.controls
  /\ Rerun(uploaded_file, slider, chart_type, ~show_stats)

InitSession ==
  /\ uploaded_file = NoFile
  /\ cache = <<>>
  /\ parseCount = <<>>
  /\ slider = NoSlider
  /\ chart_type = DefaultChart
  /\ show_stats = TRUE
  /\ out = [NoRun EXCEPT !.info = TRUE]

\* the user has one CSV file, any of Files
Init ==
  /\ pool \in {{f} : f \in Files}
  /\ InitSession

Next ==
  \/ \E f \in pool : Upload(f)
  \/ ClearFile
  \/ \E a, b \in SliderStops : MoveSlider(a, b)
  \/ \E ct \in ChartTypes : SelectChart(ct)
  \/ ToggleStats

Spec == Init /\ [][Next]_vars

\* ------------------------------------------------- a session of several files
EmptyFile == [hasDate |-> TRUE, dateOk |-> TRUE, rows |-> <<>>]

FileA ==
  [hasDate |-> TRUE, dateOk |-> TRUE,
   rows |-> <<[Date |-> <<2020, 1>>, Rate |-> 0, Forecast |-> NaN],
              [Date |-> <<2029, 1>>, Rate |-> NaN, Forecast |-> 1]>>]

FileB ==
  [hasDate |-> TRUE, dateOk |-> TRUE,
   rows |-> <<[Date |-> <<2029, 1>>, Rate |-> 1, Forecast |-> 1]>>]

FileAllNull ==
  [hasDate |-> TRUE, dateOk |-> TRUE,
   rows |-> <<[Date |-> <<2020, 12>>, Rate |-> NaN, Forecast |-> 1]>>]

SessionFiles ==
  {EmptyFile, FileA, FileB, FileAllNull, MissingDateFile, BadDateFile}

\* the user has several CSV files and uploads one after another
InitFiles ==
  /\ pool = SessionFiles
  /\ InitSession

SpecSession == InitFiles /\ [][Next]_vars

\* ------------------------------------------------------------------ claims
\* the table the last run worked on
RunTable == out.df

\* the i-th smallest member of a set of row numbers
Nth(S, k) == CHOOSE i \in S : Cardinality({j \in S : j <= i}) = k

\* the sum of Inflation_Combined over the rows S of a table
RECURSIVE SumCombined(_, _)
SumCombined(t, S) ==
  IF S = {} THEN 0
  ELSE LET i == CHOOSE i \in S : TRUE
       IN t[i].Inflation_Combined + SumCombined(t, S \ {i})

\* C1: in every table a successful load_data returned, each row keeps the
\* file's Inflation Rate and Forecast_Inflation, and its Inflation_Combined
\* is the Inflation Rate when that is non-null, otherwise the
\* Forecast_Inflation; it is null only when both are null.
C1_CombinedIsCoalesce ==
  out.loaded =>
    /\ Len(RunTable) = Len(uploaded_file.rows)
    /\ \A i \in 1..Len(RunTable) :
         LET r == RunTable[i]
         IN /\ r.Rate = uploaded_file.rows[i].Rate
            /\ r.Forecast = uploaded_file.rows[i].Forecast
            /\ r.Rate # NaN => r.Inflation_Combined = r.Rate
            /\ r.Rate = NaN => r.Inflation_Combined = r.Forecast
            /\ r.Inflation_Combined = NaN <=> (r.Rate = NaN /\ r.Forecast = NaN)

\* a loaded table with a forecast-only row, and a row whose rate and
\* forecast are both present and differ
C1_Witness ==
  /\ out.loaded
  /\ \E i, j \in 1..Len(RunTable) :
       /\ RunTable[i].Rate = NaN /\ RunTable[i].Forecast # NaN
       /\ RunTable[j].Rate # NaN /\ RunTable[j].Forecast # NaN
       /\ RunTable[j].Rate # RunTable[j].Forecast

\* C2: the filtered table holds exactly the rows of the full table whose
\* Year lies in [year_min, year_max], both bounds inclusive, in the order
\* they have in the full table; it may be empty.
C2_FilterIsInclusiveSubsequence ==
  out.controls =>
    LET keep == {i \in 1..Len(RunTable) :
                   /\ out.year_range[1] <= RunTable[i].Year
                   /\ RunTable[i].Year <= out.year_range[2]}
    IN /\ Len(out.filtered_df) = Cardinality(keep)
       /\ \A k \in 1..Len(out.filtered_df) :
            out.filtered_df[k] = RunTable[Nth(keep, k)]

\* a range the user selected whose upper bound is the year of a row, and
\* which keeps some rows and drops others
C2_Witness ==
  /\ out.controls
  /\ out.year_range # DefaultRange
  /\ \E i \in 1..Len(RunTable) : RunTable[i].Year = out.year_range[2]
  /\ Len(out.filtered_df) > 0
  /\ Len(out.filtered_df) < Len(RunTable)

\* C3: when the stats panel is shown, the max value is >= and the min value
\* is <= every non-null Inflation Rate of the full table, both are attained,
\* and the date shown for each is the "Month Year" of the first row in table
\* order that attains it.
C3_ExtremesAndFirstDates ==
  out.stats =>
    LET rated == {i \in 1..Len(RunTable) : RunTable[i].Rate # NaN}
        atMax == {i \in rated : RunTable[i].Rate = out.max_inflation_value}
        atMin == {i \in rated : RunTable[i].Rate = out.min_inflation_value}
    IN /\ \A i \in rated : /\ RunTable[i].Rate <= out.max_inflation_value
                           /\ RunTable[i].Rate >= out.min_inflation_value
       /\ atMax # {} /\ atMin # {}
       /\ out.max_inflation_date =
            <<FullMonths[RunTable[Nth(atMax, 1)].Date[2]],
              RunTable[Nth(atMax, 1)].Date[1]>>
       /\ out.min_inflation_date =
            <<FullMonths[RunTable[Nth(atMin, 1)].Date[2]],
              RunTable[Nth(atMin, 1)].Date[1]>>

\* the stats panel over a table in which two rows of different dates share
\* the maximum
C3_Witness ==
  /\ out.stats
  /\ \E i, j \in 1..Len(RunTable) :
       /\ i < j
       /\ RunTable[i].Rate = out.max_inflation_value
       /\ RunTable[j].Rate = out.max_inflation_value
       /\ RunTable[i].Date # RunTable[j].Date

\* C4: over a table with rows whose Inflation Rate is null in every row, a
\* run with the stats panel enabled completes: the metrics give way to a
\* "no data" indication, the selected view and the footer are drawn, nothing
\* is raised.
C4_AllNullCompletes ==
  ( /\ out.loaded
    /\ Len(RunTable) > 0
    /\ \A i \in 1..Len(RunTable) : RunTable[i].Rate = NaN
    /\ show_stats )
  => /\ out.status = "done"
     /\ out.view # "none"
     /\ out.footer

\* C5: a CSV with valid headers and no data rows gives a completed run with
\* (empty) charts: no step raises and the load does not fail.
C5_EmptyUploadCompletes ==
  ( /\ uploaded_file # NoFile
    /\ uploaded_file.hasDate /\ uploaded_file.dateOk
    /\ uploaded_file.rows = <<>> )
  => /\ out.status = "done"
     /\ out.view # "none"

\* whether load_data returned None for the uploaded file
LoadFailed ==
  /\ uploaded_file # NoFile
  /\ uploaded_file \in DOMAIN cache
  /\ cache[uploaded_file] = None

\* C6: a file whose Date column is missing or unparsable makes load_data
\* return None; whenever load_data returned None the run shows the error,
\* draws no controls, metrics, view, export or footer, and raises nothing;
\* every file can still be uploaded, and uploading one that parses and has
\* rows then draws the dashboard's controls.
C6_FailedLoadState ==
  /\ (uploaded_file # NoFile /\ (~uploaded_file.hasDate \/ ~uploaded_file.dateOk))
       => LoadFailed
  /\ LoadFailed =>
       /\ out.status = "load_failed" /\ out.raised_at = 0
       /\ out.error
       /\ ~out.controls /\ ~out.stats /\ out.view = "none"
       /\ ~out.export /\ ~out.footer
       /\ \A f \in pool : ENABLED Upload(f)

C6_Recovers ==
  (LoadFailed /\ uploaded_file' # uploaded_file /\ uploaded_file' # NoFile
     /\ uploaded_file'.hasDate /\ uploaded_file'.dateOk
     /\ uploaded_file'.rows # <<>>)
  => (out'.loaded /\ out'.controls /\ ~out'.error)

C6_LoadFailure == []C6_FailedLoadState /\ [][C6_Recovers]_vars

\* a dashboard drawn for a file uploaded after a load had failed
C6_Witness ==
  /\ \E f \in DOMAIN cache : cache[f] = None
  /\ out.loaded /\ out.status = "done"

\* C7: in line-chart mode the marker is at the earliest Date among the rows
\* of the unfiltered table whose Inflation Rate is null, whatever the
\* selected year range, and its label carries that date's year; with no
\* such row there is neither marker nor label.
C7_MarkerIsEarliestNull ==
  out.view = "Line Charts" =>
    LET nullDates == {RunTable[i].Date :
                        i \in {j \in 1..Len(RunTable) : RunTable[j].Rate = NaN}}
    IN IF nullDates = {}
       THEN out.marker = NaT /\ out.annotation = NaN
       ELSE /\ out.marker \in nullDates
            /\ \A d \in nullDates :
                 \/ out.marker[1] < d[1]
                 \/ (out.marker[1] = d[1] /\ out.marker[2] <= d[2])
            /\ out.annotation = out.marker[1]

\* a marker outside the selected year range, over a table whose first null
\* row is not its earliest
C7_Witness ==
  /\ out.view = "Line Charts"
  /\ out.marker # NaT
  /\ (out.marker[1] < out.year_range[1] \/ out.marker[1] > out.year_range[2])
  /\ \E i, j \in 1..Len(RunTable) :
       /\ i < j
       /\ RunTable[i].Rate = NaN /\ RunTable[j].Rate = NaN
       /\ DateOrd(RunTable[j].Date) < DateOrd(RunTable[i].Date)

\* what load_data can return for a file
Parses(file) == {load_data(file, e) : e \in EmptyDtypes(file)}

\* C8: the table a run uses is always a parse of the file that is uploaded
\* now; no file is parsed twice; a run that keeps the file (a control
\* change) parses nothing.
C8_TableOfCurrentFile ==
  /\ uploaded_file # NoFile =>
       /\ [isNone |-> ~out.loaded, rows |-> RunTable] \in Parses(uploaded_file)
       /\ out.loaded => \A i \in 1..Len(RunTable) :
                          RunTable[i].Date = uploaded_file.rows[i].Date
  /\ \A f \in DOMAIN parseCount : parseCount[f] <= 1

C8_NoReparse ==
  (uploaded_file' = uploaded_file /\ uploaded_file # NoFile)
    => parseCount' = parseCount

C8_CachedByFile == []C8_TableOfCurrentFile /\ [][C8_NoReparse]_vars

\* a control change on the second table of a session, after a return to a
\* file loaded before
C8_Witness ==
  /\ Cardinality(DOMAIN cache) >= 3
  /\ out.loaded /\ out.status = "done"
  /\ out.year_range # DefaultRange
  /\ out.view = "Raw Data"

\* C9: on the run that follows the upload of a file with rows, the slider's
\* bounds are the least and greatest Year of the data, its selection is that
\* whole range, and every row is shown.
C9_FirstRun ==
  (uploaded_file' # uploaded_file /\ out'.controls)
  => /\ out'.slider_bounds = <<YearMin(out'.df), YearMax(out'.df)>>
     /\ out'.year_range = <<YearMin(out'.df), YearMax(out'.df)>>
     /\ out'.filtered_df = out'.df

C9_DefaultIsObservedRange == [][C9_FirstRun]_vars

\* the (month, year) group of a filtered table: its rows with a value
Group(t, month, year) ==
  {i \in 1..Len(t) : /\ t[i].Month = month /\ t[i].Year = year
                     /\ t[i].Inflation_Combined # NaN}

\* C10 as claimed: the grid's rows are Jan..Dec, its columns the years
\* present in the filtered table, and a cell holds the Inflation_Combined of
\* the filtered row of that month and year, blank when there is none.
C10_ColumnsAreYearsPresent ==
  out.view = "Heatmap" =>
    /\ out.pivot.index = all_months
    /\ out.pivot.columns = {out.filtered_df[i].Year : i \in 1..Len(out.filtered_df)}
    /\ \A m \in Range(all_months), y \in out.pivot.columns :
         LET g == Group(out.filtered_df, m, y)
         IN IF g = {} THEN out.pivot.cell[m, y] = Blank
            ELSE \A i \in g :
                   out.pivot.cell[m, y] =
                     [sum |-> out.filtered_df[i].Inflation_Combined, n |-> 1]

\* C10: the grid handed to the heatmap has the rows Jan..Dec in that
\* order, its columns the years of the filtered table that have a non-null
\* Inflation_Combined, and a cell
\* holds the mean of the non-null Inflation_Combined of the filtered rows of
\* that month and year (the row's own value when there is one such row),
\* blank, and never zero, when there is none.
C10_HeatmapGrid ==
  out.view = "Heatmap" =>
    /\ out.pivot.index =
         <<"Jan", "Feb", "Mar", "Apr", "May", "Jun",
           "Jul", "Aug", "Sep", "Oct", "Nov", "Dec">>
    /\ out.pivot.columns =
         {out.filtered_df[i].Year :
            i \in {j \in 1..Len(out.filtered_df) :
                     out.filtered_df[j].Inflation_Combined # NaN}}
    /\ DOMAIN out.pivot.cell = Range(all_months) \X out.pivot.columns
    /\ \A m \in Range(all_months), y \in out.pivot.columns :
         LET g == Group(out.filtered_df, m, y)
         IN /\ out.pivot.cell[m, y].n = Cardinality(g)
            /\ out.pivot.cell[m, y].sum = SumCombined(out.filtered_df, g)
            /\ g = {} => out.pivot.cell[m, y] = Blank
            /\ \A i \in g : Cardinality(g) = 1 =>
                 out.pivot.cell[m, y] =
                   [sum |-> out.filtered_df[i].Inflation_Combined, n |-> 1]

\* a heatmap over a filtered table one of whose years has only null values,
\* with a cell of value zero and a blank cell in the year that is kept
C10_Witness ==
  /\ out.view = "Heatmap"
  /\ \E i \in 1..Len(out.filtered_df) :
       out.filtered_df[i].Year \notin out.pivot.columns
  /\ \E y \in out.pivot.columns :
       /\ out.pivot.cell["Jan", y] = [sum |-> 0, n |-> 1]
       /\ out.pivot.cell["Dec", y] = Blank

====
